---- MODULE Spec2Model ----
(***************************************************************************)
(* Model of the BookmarkHub portal: the session gate in front of the       *)
(* /dashboard routes, the four authentication forms (sign-in, sign-up,     *)
(* forgot-password, update-password), the collection visibility toggle     *)
(* with its share slug, and the batched bookmark import.                   *)
(***************************************************************************)
EXTENDS Integers, Sequences, FiniteSets, TLC

VARIABLES
    entry,      \* which gate file the framework loads: "middleware" or "proxy"
    requests,   \* request id -> the request's record (path, cookie, progress, outcome)
    form,       \* the mounted form component
    isPending,  \* useState(false): a submission is being processed
    isSubmitted,\* useState(false) of the forgot-password form: confirmation card
    view,       \* what the last committed render shows
    validating, \* handleSubmit invocations awaiting the schema resolver
    inflight,   \* remote calls awaiting their reply
    submits,    \* number of submit events so far
    last,       \* the latest completed onSubmit: its reply and what it did
    location,   \* the router's current route
    event,      \* the latest step taken by the form
    collections,\* collection id -> its row (visibility, slug)
    response,   \* the latest answer of the public share page
    op,         \* the latest operation on the collections
    selected,   \* number of records selected for import
    cursor,     \* records handed to a batch so far
    pending,    \* batches submitted and not yet answered
    batches,    \* the outcome reported for each answered batch, in order
    committed,  \* rows present in the bookmarks table
    phase       \* progress of the import

gateVars == <<entry, requests>>
formVars ==
    <<form, isPending, isSubmitted, view, validating, inflight, submits, last,
      location, event>>
collVars == <<collections, response, op>>
importVars == <<selected, cursor, pending, batches, committed, phase>>
vars == <<gateVars, formVars, collVars, importVars>>

(***************************************************************************)
(* Session gate                                                            *)
(***************************************************************************)
\* Number of requests that may be in flight together.
MaxRequests == 3

Reqs == 1..MaxRequests

\* Request paths, as their segments: /, /dashboard, /dashboard/collections,
\* /dashboardx.
Paths ==
    { <<>>, <<"dashboard">>, <<"dashboard", "collections">>, <<"dashboardx">> }

\* The requests followed up to the update-password page: /auth/update-password
\* and, beside it, /dashboard.
PagePaths ==
    { <<"auth", "update-password">>, <<"dashboard">> }

\* The session cookie a request carries.
Cookies == {"absent", "present"}

\* What the remote service answers to a validate/refresh of a cookie.
RemoteAnswers == {"user", "nouser", "error"}

\* The remote service cannot produce a user for a request without a cookie.
AnswersFor(cookie) ==
    IF cookie = "absent" THEN {"nouser", "error"} ELSE RemoteAnswers

NoRequest ==
    [path |-> <<>>, cookie |-> "absent", pc |-> "new", gated |-> FALSE,
     answer |-> "none", outcome |-> "none"]

\* A matcher that forgets the bare prefix: "/dashboard/:path+".
matcher_subpaths_only(path) ==
    Len(path) >= 2 /\ path[1] = "dashboard"

\* config.matcher = ["/dashboard/:path*"]: the segment "dashboard" followed by
\* zero or more segments.
matcher(path) ==
    Len(path) >= 1 /\ path[1] = "dashboard"

\* createClient(request) of utils/supabase/middleware: validates/refreshes the
\* session with the remote service; a user lets the request through, anything
\* else (no user, a validation error) redirects to the sign-in page.  A failure
\* of the call itself rejects the returned promise.
createClient(r) ==
    IF r.answer = "failed" THEN "exception"
    ELSE IF r.answer = "user" THEN "next"
    ELSE "redirect:/auth/signin"

\* A gate that remembers that some request has already been let through.
middleware_remembers(r) ==
    IF \E q \in Reqs : requests[q].outcome = "next"
    THEN "next"
    ELSE createClient(r)

\* middleware(request) { return createClient(request); }
middleware(r) ==
    createClient(r)

\* proxy(request) { return createClient(request); }
proxy(r) ==
    createClient(r)

Gate(r) ==
    IF entry = "middleware" THEN middleware(r) ELSE proxy(r)

\* A page that renders the form without looking at the user.
UpdatePasswordPage_unguarded(r) ==
    IF r.answer = "failed" THEN "exception"
    ELSE "render:UpdatePasswordForm"

\* UpdatePasswordPage: awaits getUser and looks at data.user only (the error
\* is not inspected); a getUser that throws ends the render with an exception.
UpdatePasswordPage(r) ==
    IF r.answer = "failed" THEN "exception"
    ELSE IF r.answer # "user" THEN "redirect:/auth/signin?error=session_expired"
    ELSE "render:UpdatePasswordForm"

\* Routes whose server component asks the remote service before rendering.
AsksUser(path) ==
    path = <<"auth", "update-password">>

\* A request arrives; the framework runs the gate when the matcher matches the
\* path, and serves the route directly otherwise: a static page at once, the
\* update-password page after its own getUser.
Arrive(q, path, cookie) ==
    /\ requests[q].pc = "new"
    /\ requests' =
         [requests EXCEPT ![q] =
            IF matcher(path)
            THEN [path |-> path, cookie |-> cookie, pc |-> "validating",
                  gated |-> TRUE, answer |-> "none", outcome |-> "none"]
            ELSE IF AsksUser(path)
            THEN [path |-> path, cookie |-> cookie, pc |-> "rendering",
                  gated |-> FALSE, answer |-> "none", outcome |-> "none"]
            ELSE [path |-> path, cookie |-> cookie, pc |-> "done",
                  gated |-> FALSE, answer |-> "none", outcome |-> "route"]]
    /\ UNCHANGED <<entry, formVars, collVars, importVars>>

\* The remote service answers the gate's validation of request q, and the gate
\* returns its response.
Validated(q, answer) ==
    /\ requests[q].pc = "validating"
    /\ answer \in AnswersFor(requests[q].cookie)
    /\ LET r == [requests[q] EXCEPT !.answer = answer]
       IN requests' = [requests EXCEPT ![q] =
                          [r EXCEPT !.pc = "done", !.outcome = Gate(r)]]
    /\ UNCHANGED <<entry, formVars, collVars, importVars>>

\* The createClient call of request q fails before any answer of the remote
\* service is obtained (its promise rejects).
ClientFails(q) ==
    /\ requests[q].pc = "validating"
    /\ LET r == [requests[q] EXCEPT !.answer = "failed"]
       IN requests' = [requests EXCEPT ![q] =
                          [r EXCEPT !.pc = "done", !.outcome = Gate(r)]]
    /\ UNCHANGED <<entry, formVars, collVars, importVars>>

\* getUser of the update-password page's request q returns, and the page
\* renders the form or redirects.
PageAnswered(q, answer) ==
    /\ requests[q].pc = "rendering"
    /\ answer \in AnswersFor(requests[q].cookie)
    /\ LET r == [requests[q] EXCEPT !.answer = answer]
       IN requests' = [requests EXCEPT ![q] =
                          [r EXCEPT !.pc = "done", !.outcome = UpdatePasswordPage(r)]]
    /\ UNCHANGED <<entry, formVars, collVars, importVars>>

\* createClient or getUser of the update-password page's request q throws.
PageFails(q) ==
    /\ requests[q].pc = "rendering"
    /\ LET r == [requests[q] EXCEPT !.answer = "failed"]
       IN requests' = [requests EXCEPT ![q] =
                          [r EXCEPT !.pc = "done", !.outcome = UpdatePasswordPage(r)]]
    /\ UNCHANGED <<entry, formVars, collVars, importVars>>

GateInit ==
    /\ entry \in {"middleware", "proxy"}
    /\ requests = [q \in Reqs |-> NoRequest]

GateNext ==
    \/ \E q \in Reqs, path \in Paths, cookie \in Cookies : Arrive(q, path, cookie)
    \/ \E q \in Reqs, answer \in RemoteAnswers : Validated(q, answer)
    \/ \E q \in Reqs : ClientFails(q)

PageNext ==
    \/ \E q \in Reqs, path \in PagePaths, cookie \in Cookies :
          Arrive(q, path, cookie)
    \/ \E q \in Reqs, answer \in RemoteAnswers : Validated(q, answer)
    \/ \E q \in Reqs : ClientFails(q)
    \/ \E q \in Reqs, answer \in RemoteAnswers : PageAnswered(q, answer)
    \/ \E q \in Reqs : PageFails(q)

(***************************************************************************)
(* Authentication forms                                                    *)
(***************************************************************************)
\* Number of submit events in one run.
MaxSubmits == 2

\* z.string().min(6) and .max(72) of the password field.
MinPasswordLen == 6
MaxPasswordLen == 72

Forms == {"signin", "signup", "forgot", "update"}

PageOf(f) ==
    CASE f = "signin" -> "/auth/signin"
      [] f = "signup" -> "/auth/signup"
      [] f = "forgot" -> "/auth/forgot-password"
      [] f = "update" -> "/auth/update-password"

\* A text field's content: its length, and whether it is the alternative text
\* of that length (two texts are equal when both agree).
Text(n, alt) == [len |-> n, alt |-> alt]

Empty == Text(0, FALSE)

PasswordLens ==
    {0, 1, MinPasswordLen - 1, MinPasswordLen, MaxPasswordLen, MaxPasswordLen + 1}

Passwords == {Text(n, FALSE) : n \in PasswordLens}

\* What the user may have typed in the confirmation field against password p:
\* nothing, the same text, or another text of the same length.
ConfirmsOf(p) ==
    {Empty, p} \cup (IF p.len > 0 THEN {Text(p.len, TRUE)} ELSE {})

\* The field values a submit event captures, per form (fields a form does not
\* have stay at their defaults).
FormValues(f) ==
    CASE f = "signin" ->
           {[emailOk |-> e, password |-> p, confirmPassword |-> Empty] :
               e \in BOOLEAN, p \in {Text(0, FALSE), Text(1, FALSE)}}
      [] f = "signup" ->
           UNION {{[emailOk |-> e, password |-> p, confirmPassword |-> c] :
                      e \in BOOLEAN, c \in ConfirmsOf(p)} : p \in Passwords}
      [] f = "forgot" ->
           {[emailOk |-> e, password |-> Empty, confirmPassword |-> Empty] :
               e \in BOOLEAN}
      [] f = "update" ->
           UNION {{[emailOk |-> TRUE, password |-> p, confirmPassword |-> c] :
                      c \in ConfirmsOf(p)} : p \in Passwords}

signInSchema(v) ==
    v.emailOk /\ v.password.len >= 1

signUpSchema(v) ==
    /\ v.emailOk
    /\ v.password.len >= MinPasswordLen
    /\ v.password.len <= MaxPasswordLen
    /\ v.confirmPassword.len >= 1
    /\ v.password = v.confirmPassword

forgotPasswordSchema(v) ==
    v.emailOk

\* A schema that checks only what the card's description promises ("at least
\* 6 characters"): no upper limit on the length.
updatePasswordSchema_noMax(v) ==
    /\ v.password.len >= MinPasswordLen
    /\ v.confirmPassword.len >= 1
    /\ v.password = v.confirmPassword

updatePasswordSchema(v) ==
    /\ v.password.len >= MinPasswordLen
    /\ v.password.len <= MaxPasswordLen
    /\ v.confirmPassword.len >= 1
    /\ v.password = v.confirmPassword

\* zodResolver(schema) of the mounted form.
Schema(f, v) ==
    CASE f = "signin" -> signInSchema(v)
      [] f = "signup" -> signUpSchema(v)
      [] f = "forgot" -> forgotPasswordSchema(v)
      [] f = "update" -> updatePasswordSchema(v)

\* A reply of the remote service to an auth call: the call threw, or it
\* returned { data: { user, session }, error }.
Reply(threw, error, user, session) ==
    [threw |-> threw, error |-> error, user |-> user, session |-> session]

Threw == Reply(TRUE, FALSE, FALSE, FALSE)
ErrorReply == Reply(FALSE, TRUE, FALSE, FALSE)
EmptyReply == Reply(FALSE, FALSE, FALSE, FALSE)
UserReply == Reply(FALSE, FALSE, TRUE, FALSE)
SessionReply == Reply(FALSE, FALSE, TRUE, TRUE)
ErrorWithUser == Reply(FALSE, TRUE, TRUE, TRUE)

\* The replies each call can get: signInWithPassword returns user and session
\* together, signUp may return a user without a session, resetPasswordForEmail
\* returns empty data.
RepliesOf(f) ==
    CASE f = "signin" ->
           {Threw, ErrorReply, ErrorWithUser, EmptyReply, SessionReply}
      [] f = "signup" ->
           {Threw, ErrorReply, ErrorWithUser, EmptyReply, UserReply, SessionReply}
      [] f = "forgot" -> {Threw, ErrorReply, EmptyReply}
      [] f = "update" -> {Threw, ErrorReply, UserReply}

GenericError == "Something went wrong. Please try again."

\* What an onSubmit does once its call is over.
Effects(toast, push, refresh, submitted) ==
    [toast |-> toast, push |-> push, refresh |-> refresh, submitted |-> submitted]

Nothing == Effects("none", "none", FALSE, FALSE)

\* An onSubmit that assumes success: it looks at the user before the error.
signInOnSubmit_userFirst(reply) ==
    IF reply.threw THEN Effects(GenericError, "none", FALSE, FALSE)
    ELSE IF reply.user
         THEN Effects("Signed in successfully", "/dashboard", TRUE, FALSE)
         ELSE IF reply.error THEN Effects("error.message", "none", FALSE, FALSE)
         ELSE Nothing

\* SignInForm.onSubmit, from the reply on.
signInOnSubmit(reply) ==
    IF reply.threw THEN Effects(GenericError, "none", FALSE, FALSE)
    ELSE IF reply.error THEN Effects("error.message", "none", FALSE, FALSE)
    ELSE IF reply.user
         THEN Effects("Signed in successfully", "/dashboard", TRUE, FALSE)
         ELSE Nothing

\* An onSubmit that takes every new user to the dashboard, session or not.
signUpOnSubmit_ignoresSession(reply) ==
    IF reply.threw THEN Effects(GenericError, "none", FALSE, FALSE)
    ELSE IF reply.error THEN Effects("error.message", "none", FALSE, FALSE)
    ELSE IF reply.user
         THEN Effects("Account created successfully", "/dashboard", TRUE, FALSE)
         ELSE Nothing

\* SignUpForm.onSubmit, from the reply on.
signUpOnSubmit(reply) ==
    IF reply.threw THEN Effects(GenericError, "none", FALSE, FALSE)
    ELSE IF reply.error THEN Effects("error.message", "none", FALSE, FALSE)
    ELSE IF reply.user
         THEN IF reply.session
              THEN Effects("Account created successfully", "/dashboard", TRUE, FALSE)
              ELSE Effects("Check your email to confirm your account",
                           "/auth/signin", TRUE, FALSE)
         ELSE Nothing

\* An onSubmit without the early return on error: the confirmation card is
\* shown whatever the reply.
forgotPasswordOnSubmit_noReturn(reply) ==
    IF reply.threw THEN Effects(GenericError, "none", FALSE, FALSE)
    ELSE IF reply.error THEN Effects("error.message", "none", FALSE, TRUE)
    ELSE Effects("none", "none", FALSE, TRUE)

\* ForgotPasswordForm.onSubmit, from the reply on.
forgotPasswordOnSubmit(reply) ==
    IF reply.threw THEN Effects(GenericError, "none", FALSE, FALSE)
    ELSE IF reply.error THEN Effects("error.message", "none", FALSE, FALSE)
    ELSE Effects("none", "none", FALSE, TRUE)

\* UpdatePasswordForm.onSubmit, from the reply on.
updatePasswordOnSubmit(reply) ==
    IF reply.threw THEN Effects(GenericError, "none", FALSE, FALSE)
    ELSE IF reply.error THEN Effects("error.message", "none", FALSE, FALSE)
    ELSE Effects("Password updated successfully", "/auth/signin", TRUE, FALSE)

\* An onSubmit that resets isPending at the end of its try block instead of
\* in a finally: an error reply or an exception leaves it as it was.
signInFinally_endOfTry(before, reply) ==
    IF reply.threw \/ reply.error THEN before ELSE FALSE

\* finally { setIsPending(false); } of each onSubmit: isPending after the
\* handler, given its value before and the reply.
signInFinally(before, reply) ==
    FALSE

signUpFinally(before, reply) ==
    FALSE

forgotPasswordFinally(before, reply) ==
    FALSE

updatePasswordFinally(before, reply) ==
    FALSE

Finally(f, before, reply) ==
    CASE f = "signin" -> signInFinally(before, reply)
      [] f = "signup" -> signUpFinally(before, reply)
      [] f = "forgot" -> forgotPasswordFinally(before, reply)
      [] f = "update" -> updatePasswordFinally(before, reply)

OnSubmit(f, reply) ==
    CASE f = "signin" -> signInOnSubmit(reply)
      [] f = "signup" -> signUpOnSubmit(reply)
      [] f = "forgot" -> forgotPasswordOnSubmit(reply)
      [] f = "update" -> updatePasswordOnSubmit(reply)

NoCompletion ==
    [n |-> 0, id |-> 0, reply |-> EmptyReply, did |-> Nothing]

\* The user submits the form that is on screen (the submit button is enabled):
\* handleSubmit captures the field values and starts the resolver.
HandleSubmit(v) ==
    /\ location = PageOf(form)
    /\ ~view.disabled
    /\ ~view.confirmation
    /\ submits < MaxSubmits
    /\ v \in FormValues(form)
    /\ submits' = submits + 1
    /\ validating' = validating \cup {[id |-> submits + 1, values |-> v]}
    /\ event' = "submit"
    /\ UNCHANGED <<form, isPending, isSubmitted, view, inflight, last, location>>
    /\ UNCHANGED <<gateVars, collVars, importVars>>

\* The resolver settles: invalid values end the submission with field errors;
\* valid ones enter onSubmit, which sets isPending and starts the remote call.
Resolve(e) ==
    /\ e \in validating
    /\ validating' = validating \ {e}
    /\ IF Schema(form, e.values)
       THEN /\ isPending' = TRUE
            /\ inflight' = inflight \cup {[id |-> e.id, data |-> e.values]}
            /\ event' = "call"
       ELSE /\ event' = "invalid"
            /\ UNCHANGED <<isPending, inflight>>
    /\ UNCHANGED <<form, isSubmitted, view, submits, last, location>>
    /\ UNCHANGED <<gateVars, collVars, importVars>>

\* The remote call of submission c is over: the rest of onSubmit runs, its
\* finally block included.
Complete(c, reply) ==
    /\ c \in inflight
    /\ reply \in RepliesOf(form)
    /\ inflight' = inflight \ {c}
    /\ LET did == OnSubmit(form, reply) IN
         /\ last' = [n |-> last.n + 1, id |-> c.id, reply |-> reply, did |-> did]
         /\ location' = IF did.push # "none" THEN did.push ELSE location
         /\ isSubmitted' = (isSubmitted \/ did.submitted)
    /\ isPending' = Finally(form, isPending, reply)
    /\ event' = "reply"
    /\ UNCHANGED <<form, view, validating, submits>>
    /\ UNCHANGED <<gateVars, collVars, importVars>>

\* React commits a render of the current state.
Render ==
    /\ view # [disabled |-> isPending, confirmation |-> isSubmitted]
    /\ view' = [disabled |-> isPending, confirmation |-> isSubmitted]
    /\ event' = "render"
    /\ UNCHANGED <<form, isPending, isSubmitted, validating, inflight, submits,
                   last, location>>
    /\ UNCHANGED <<gateVars, collVars, importVars>>

\* The "try again" button of the confirmation card: setIsSubmitted(false).
TryAgain ==
    /\ form = "forgot"
    /\ view.confirmation
    /\ isSubmitted' = FALSE
    /\ event' = "tryAgain"
    /\ UNCHANGED <<form, isPending, view, validating, inflight, submits, last,
                   location>>
    /\ UNCHANGED <<gateVars, collVars, importVars>>

FormInit(forms) ==
    /\ form \in forms
    /\ isPending = FALSE
    /\ isSubmitted = FALSE
    /\ view = [disabled |-> FALSE, confirmation |-> FALSE]
    /\ validating = {}
    /\ inflight = {}
    /\ submits = 0
    /\ last = NoCompletion
    /\ location = PageOf(form)
    /\ event = "mount"

FormNext ==
    \/ \E v \in FormValues(form) : HandleSubmit(v)
    \/ \E e \in validating : Resolve(e)
    \/ \E c \in inflight, reply \in RepliesOf(form) : Complete(c, reply)
    \/ Render
    \/ TryAgain

(***************************************************************************)
(* Collection visibility and the share slug                                *)
(***************************************************************************)
\* Number of collections, and of visibility toggles per collection.
MaxCollections == 2
MaxToggles == 4

CollIds == 1..MaxCollections

\* The identifiers the slug generator can draw (8 URL-safe characters each).
SlugPool == {"aaaaaaaa", "bbbbbbbb", "cccccccc"}

NoSlug == "none"
NotFound == 0

\* A collection row, with what the run remembers of it: whether it was ever
\* public, the first slug it got, and whether it was ever taken back from
\* public to private.
NoCollection ==
    [exists |-> FALSE, public |-> FALSE, slug |-> NoSlug, toggles |-> 0,
     everPublic |-> FALSE, firstSlug |-> NoSlug, unpublished |-> FALSE]

\* A toggle that generates a slug at every publication.
assignSlug_regenerates(col, fresh) ==
    fresh

\* The slug after "make public": a fresh one only when none exists yet.
assignSlug(col, fresh) ==
    IF col.slug = NoSlug THEN fresh ELSE col.slug

\* The row after "make private": only the flag changes.
makePrivate(col) ==
    [col EXCEPT !.public = FALSE, !.toggles = @ + 1,
                !.unpublished = @ \/ col.public]

\* The unique constraint on the slug column.
SlugTaken(c, s) ==
    \E d \in CollIds \ {c} : collections[d].exists /\ collections[d].slug = s

\* A lookup that forgets the public flag.
findPublicBySlug_anyVisibility(s) ==
    IF \E c \in CollIds : collections[c].exists /\ collections[c].slug = s
    THEN CHOOSE c \in CollIds : collections[c].exists /\ collections[c].slug = s
    ELSE NotFound

\* GET /share/{slug}: the public collection with that slug, if any.
findPublicBySlug(s) ==
    IF \E c \in CollIds :
           collections[c].exists /\ collections[c].public /\ collections[c].slug = s
    THEN CHOOSE c \in CollIds :
           collections[c].exists /\ collections[c].public /\ collections[c].slug = s
    ELSE NotFound

\* The owner creates a collection; it starts private and without a slug.
CreateCollection(c) ==
    /\ ~collections[c].exists
    /\ collections' = [collections EXCEPT ![c] = [NoCollection EXCEPT !.exists = TRUE]]
    /\ op' = "create"
    /\ UNCHANGED <<response, gateVars, formVars, importVars>>

\* The owner makes collection c public; fresh is what the generator draws when
\* a slug is needed.  The store refuses a slug another collection holds.
MakePublic(c, fresh) ==
    /\ collections[c].exists
    /\ collections[c].toggles < MaxToggles
    /\ LET col == collections[c]
           slug == assignSlug(col, fresh)
       IN IF SlugTaken(c, slug)
          THEN /\ op' = "rejected"
               /\ collections' = [collections EXCEPT ![c].toggles = @ + 1]
          ELSE /\ op' = "makePublic"
               /\ collections' =
                    [collections EXCEPT ![c] =
                       [col EXCEPT !.public = TRUE, !.slug = slug,
                                   !.toggles = @ + 1, !.everPublic = TRUE,
                                   !.firstSlug = IF col.everPublic THEN @ ELSE slug]]
    /\ UNCHANGED <<response, gateVars, formVars, importVars>>

\* The owner makes collection c private.
MakePrivate(c) ==
    /\ collections[c].exists
    /\ collections[c].toggles < MaxToggles
    /\ collections' = [collections EXCEPT ![c] = makePrivate(collections[c])]
    /\ op' = "makePrivate"
    /\ UNCHANGED <<response, gateVars, formVars, importVars>>

\* Anyone reads the share page of slug s.
Lookup(s) ==
    /\ response' = [slug |-> s, found |-> findPublicBySlug(s)]
    /\ op' = "lookup"
    /\ UNCHANGED <<collections, gateVars, formVars, importVars>>

CollInit ==
    /\ collections = [c \in CollIds |-> NoCollection]
    /\ response = [slug |-> NoSlug, found |-> NotFound]
    /\ op = "none"

CollNext ==
    \/ \E c \in CollIds : CreateCollection(c)
    \/ \E c \in CollIds, fresh \in SlugPool : MakePublic(c, fresh)
    \/ \E c \in CollIds : MakePrivate(c)
    \/ \E s \in SlugPool : Lookup(s)

(***************************************************************************)
(* Bookmark import                                                         *)
(***************************************************************************)
\* Largest number of records selected for one import.
MaxRecords == 250

\* Selected records go to the remote service in batches of 100.
BatchSize == 100

Min(a, b) == IF a < b THEN a ELSE b

\* Rows from+1 .. from+size of the selection.
Rows(from, size) == (from + 1)..(from + size)

\* Batches are awaited one by one: the next starts when none is pending.
mayStartBatch(waiting) ==
    waiting = {}

\* An import that gives up at the first failed batch.
continueAfter_stopsOnFailure(ok) ==
    ok

\* A failed batch does not end the import.
continueAfter(ok) ==
    TRUE

\* The user confirms an import of n selected records.
StartImport(n) ==
    /\ phase = "idle"
    /\ selected' = n
    /\ phase' = IF n = 0 THEN "done" ELSE "running"
    /\ UNCHANGED <<cursor, pending, batches, committed, gateVars, formVars, collVars>>

\* The next batch of at most BatchSize records is submitted.
SubmitBatch ==
    /\ phase = "running"
    /\ cursor < selected
    /\ mayStartBatch(pending)
    /\ LET size == Min(BatchSize, selected - cursor) IN
         /\ pending' = pending \cup {[from |-> cursor, size |-> size]}
         /\ cursor' = cursor + size
    /\ UNCHANGED <<selected, batches, committed, phase, gateVars, formVars, collVars>>

\* The remote service answers batch b: its rows are inserted, or the batch
\* fails as a whole; the outcome is recorded for that batch.
BatchAnswered(b, ok) ==
    /\ b \in pending
    /\ pending' = pending \ {b}
    /\ batches' = Append(batches, [from |-> b.from, size |-> b.size, ok |-> ok])
    /\ committed' = IF ok THEN committed \cup Rows(b.from, b.size) ELSE committed
    /\ phase' = IF ~continueAfter(ok) \/ (cursor = selected /\ pending' = {})
                THEN "done" ELSE phase
    /\ UNCHANGED <<selected, cursor, gateVars, formVars, collVars>>

ImportInit ==
    /\ selected = 0
    /\ cursor = 0
    /\ pending = {}
    /\ batches = <<>>
    /\ committed = {}
    /\ phase = "idle"

ImportNext ==
    \/ \E n \in 0..MaxRecords : StartImport(n)
    \/ SubmitBatch
    \/ \E b \in pending, ok \in BOOLEAN : BatchAnswered(b, ok)

GateIdle ==
    /\ entry = "middleware"
    /\ requests = [q \in Reqs |-> NoRequest]

\* Each part of the system on its own, the others at rest.
InitGate ==
    GateInit /\ FormInit({"signin"}) /\ CollInit /\ ImportInit

InitForms ==
    GateIdle /\ FormInit(Forms) /\ CollInit /\ ImportInit

InitCollections ==
    GateIdle /\ FormInit({"signin"}) /\ CollInit /\ ImportInit

InitImport ==
    GateIdle /\ FormInit({"signin"}) /\ ImportInit /\ CollInit

SpecGate == InitGate /\ [][GateNext]_vars

SpecPage == InitGate /\ [][PageNext]_vars

SpecForms == InitForms /\ [][FormNext]_vars

\* The forms with React's guarantee that a scheduled render is committed.
SpecFormsLive == InitForms /\ [][FormNext]_vars /\ WF_vars(Render)

SpecCollections == InitCollections /\ [][CollNext]_vars

SpecImport == InitImport /\ [][ImportNext]_vars

(***************************************************************************)
(* Authentication forms: properties                                        *)
(***************************************************************************)
ErrorToasts == {"error.message", GenericError}

Failed(reply) == reply.threw \/ reply.error

\* The step completes a remote call.
Completes == last'.n = last.n + 1

\* C4: in the sign-in form, a signInWithPassword call that returns an error or
\* throws ends with an error toast and without navigation, and a step navigates
\* to /dashboard only when it completes a call that returned no error and a
\* user.
C4_SignInErrorNeverNavigates ==
    [][form = "signin" =>
         /\ (Completes /\ Failed(last'.reply)) =>
                /\ last'.did.toast \in ErrorToasts
                /\ last'.did.push = "none"
                /\ location' = location
         /\ (location' # location /\ location' = "/dashboard") =>
                /\ Completes
                /\ ~Failed(last'.reply)
                /\ last'.reply.user]_vars

\* The sign-in form after a call that returned an error: the error is shown and
\* the route is still the sign-in page.
C4_Witness ==
    /\ form = "signin"
    /\ event = "reply"
    /\ last.reply = ErrorReply
    /\ last.did.toast = "error.message"
    /\ location = "/auth/signin"

\* C5 as stated: a sign-up call that returns has an error or a session; without
\* an error the user has a session and is taken to /dashboard, with an error an
\* error message is shown and nothing is navigated to.
C5_SessionOrError ==
    (form = "signup" /\ last.n > 0 /\ ~last.reply.threw) =>
        IF last.reply.error
        THEN last.did.toast \in ErrorToasts /\ last.did.push = "none"
        ELSE last.reply.session /\ last.did.push = "/dashboard"

\* C5 amended: a sign-up call that returns an error ends with the error message
\* and no navigation; one that returns no error and a user with a session takes
\* the user to /dashboard, and this is the only way to /dashboard; one that
\* returns no error and a user without a session tells the user to check their
\* email and goes to /auth/signin.
C5_SessionConfirmationOrError ==
    (form = "signup" /\ last.n > 0 /\ ~last.reply.threw) =>
        /\ last.reply.error =>
               last.did.toast = "error.message" /\ last.did.push = "none"
        /\ (last.did.push = "/dashboard") <=>
               (~last.reply.error /\ last.reply.user /\ last.reply.session)
        /\ (~last.reply.error /\ last.reply.user /\ ~last.reply.session) =>
               /\ last.did.toast = "Check your email to confirm your account"
               /\ last.did.push = "/auth/signin"

\* The sign-up form after a call that returned a user but no session: the route
\* is the sign-in page.
C5_Witness ==
    /\ form = "signup"
    /\ last.reply = UserReply
    /\ last.did.toast = "Check your email to confirm your account"
    /\ location = "/auth/signin"

\* C6: every submission that reached the remote service ends with something
\* the user sees: a toast, a navigation, or the confirmation card.
C6_NoSilentCompletion ==
    last.n > 0 =>
        \/ last.did.toast # "none"
        \/ last.did.push # "none"
        \/ last.did.submitted

\* C10: in the forgot-password form, isSubmitted becomes true only in a step
\* that completes a resetPasswordForEmail call which returned no error; a call
\* that returns an error or throws shows an error toast and does not change
\* isSubmitted; "try again" sets isSubmitted back to false.
C10_ConfirmationOnlyAfterSuccess ==
    [][form = "forgot" =>
         /\ (~isSubmitted /\ isSubmitted') =>
                (Completes /\ ~Failed(last'.reply))
         /\ (Completes /\ Failed(last'.reply)) =>
                /\ isSubmitted' = isSubmitted
                /\ last'.did.toast \in ErrorToasts
         /\ event' = "tryAgain" => ~isSubmitted']_vars

\* The forgot-password form back in the entry state by "try again", after a
\* second call; the first one had to fail or be retried.
C10_Witness ==
    /\ form = "forgot"
    /\ event = "tryAgain"
    /\ ~isSubmitted
    /\ view.confirmation
    /\ last.n = 2
    /\ ~Failed(last.reply)

\* C11: in the sign-up and update-password forms a remote call (signUp,
\* updateUser) is in flight only with a password of 6 to 72 characters whose
\* confirmation equals it; a submission with any other input ends at the
\* resolver and starts no call.
C11_OnlyValidPasswordsAreSent ==
    form \in {"signup", "update"} =>
        /\ \A c \in inflight :
              /\ c.data.password.len >= 6
              /\ c.data.password.len <= 72
              /\ c.data.confirmPassword = c.data.password
        /\ event = "invalid" => Cardinality(inflight) < submits

\* The update-password form with a 72-character password on its way to the
\* remote service while a second submission was turned down by the resolver.
C11_Witness ==
    /\ form = "update"
    /\ event = "invalid"
    /\ submits = 2
    /\ \E c \in inflight :
          c.data.password.len = 72 /\ c.data.confirmPassword = c.data.password

\* C13: in each form, the step in which a remote call returns or throws
\* leaves isPending false, whatever the reply; and whenever no submission is
\* outstanding the submit button is eventually rendered enabled.
C13_PendingAlwaysReset ==
    /\ [][Completes => ~isPending']_vars
    /\ (validating = {} /\ inflight = {}) ~> ~view.disabled

\* A form whose call threw: isPending is false again while the button is still
\* rendered disabled.
C13_Witness ==
    /\ event = "reply"
    /\ last.reply = Threw
    /\ ~isPending
    /\ view.disabled
    /\ inflight = {}

\* C14: one instance of the sign-in form has at most one signInWithPassword
\* call in flight at any time.
C14_OneCallInFlight ==
    form = "signin" => Cardinality(inflight) <= 1

(***************************************************************************)
(* Collections and import: properties                                      *)
(***************************************************************************)
\* C7: whatever the sequence of make-public / make-private toggles, a
\* collection has a slug exactly when it has ever been made public, and its
\* slug is the one it got at the first make-public (never regenerated, never
\* cleared by make-private).
C7_SlugAssignedOnceAndKept ==
    \A c \in CollIds :
        LET col == collections[c] IN
        col.exists =>
            /\ (col.slug # NoSlug) <=> col.everPublic
            /\ col.everPublic => col.slug = col.firstSlug

\* A collection made public, private, public and now private again, which
\* still carries its first slug.
C7_Witness ==
    \E c \in CollIds :
        /\ collections[c].toggles >= 3
        /\ collections[c].unpublished
        /\ op = "makePrivate"
        /\ ~collections[c].public
        /\ collections[c].everPublic
        /\ collections[c].slug = collections[c].firstSlug
        /\ collections[c].slug # NoSlug

CeilDiv(a, b) == (a + b - 1) \div b

\* C8: an import of N records runs ceil(N/100) batches, never two at a time,
\* batch i covering the records after the first 100*(i-1), 100 of them except
\* in a smaller last batch; the rows present are exactly those of the batches
\* reported successful, so a failed batch removes nothing committed earlier and
\* is the only one reported failed, and the batches after it are still run.
C8_SequentialBatchesOfHundred ==
    /\ Cardinality(pending) <= 1
    /\ \A i \in DOMAIN batches :
          /\ batches[i].from = BatchSize * (i - 1)
          /\ batches[i].size = Min(BatchSize, selected - BatchSize * (i - 1))
    /\ committed =
          UNION {Rows(batches[i].from, batches[i].size) :
                    i \in {j \in DOMAIN batches : batches[j].ok}}
    /\ phase = "done" => Len(batches) = CeilDiv(selected, BatchSize)

\* 250 records imported in batches of 100, 100 and 50, the second one failed:
\* the first and third batches' rows are present.
C8_Witness ==
    /\ selected = 250
    /\ phase = "done"
    /\ batches = << [from |-> 0, size |-> 100, ok |-> TRUE],
                    [from |-> 100, size |-> 100, ok |-> FALSE],
                    [from |-> 200, size |-> 50, ok |-> TRUE] >>
    /\ committed = (1..100) \cup (201..250)

\* C9: a read of a share slug returns a collection only if that collection
\* carries the slug and is public when the read happens, and it returns the
\* collection whenever one is: not-found after a make-private, the same
\* collection again after a later make-public.
C9_LookupOnlyWhilePublic ==
    op = "lookup" =>
        /\ response.found # NotFound =>
              /\ collections[response.found].public
              /\ collections[response.found].slug = response.slug
        /\ \A c \in CollIds :
              (/\ collections[c].exists
               /\ collections[c].public
               /\ collections[c].slug = response.slug) => response.found = c

\* A read that finds a collection made public, private and public again, under
\* its first slug.
C9_Witness ==
    /\ op = "lookup"
    /\ response.found # NotFound
    /\ collections[response.found].unpublished
    /\ collections[response.found].firstSlug = response.slug

\* A read that gets not-found for the slug of a collection made private.
C9_PrivateIsNotFound ==
    /\ op = "lookup"
    /\ response.found = NotFound
    /\ \E c \in CollIds :
          /\ collections[c].slug = response.slug
          /\ collections[c].unpublished
          /\ ~collections[c].public

(***************************************************************************)
(* Session gate: properties                                                *)
(***************************************************************************)
\* /dashboard or any path below it.
UnderDashboard(path) ==
    Len(path) >= 1 /\ Head(path) = "dashboard"

ReachedPage(r) ==
    r.pc = "done" /\ r.outcome \in {"next", "route"}

\* C1: every request for /dashboard or a path below it goes through the gate;
\* when the remote service answers with no valid user (no user, or a validation
\* error) the response is the redirect to the sign-in page, and the protected
\* page is reached only on an answer that carries a user.
C1_DashboardNeedsUser ==
    \A q \in Reqs :
        LET r == requests[q] IN
        (r.pc # "new" /\ UnderDashboard(r.path)) =>
            /\ r.gated
            /\ (r.pc = "done" /\ r.answer \in {"nouser", "error"})
                    => r.outcome = "redirect:/auth/signin"
            /\ ReachedPage(r) => r.answer = "user"

\* A state where /dashboard itself was refused for want of a user while a path
\* below it was let through with one.
C1_Witness ==
    \E q1, q2 \in Reqs :
        /\ requests[q1].path = <<"dashboard">>
        /\ requests[q1].answer = "nouser"
        /\ requests[q1].outcome = "redirect:/auth/signin"
        /\ requests[q2].path = <<"dashboard", "collections">>
        /\ requests[q2].answer = "user"
        /\ requests[q2].outcome = "next"

\* C12: a request for /auth/update-password is not gated, and its page guards
\* itself: the update-password form is rendered only when getUser returned a
\* user, and when getUser returned without one (no session, or an error the
\* page does not look at) the answer is the redirect to
\* /auth/signin?error=session_expired.
C12_UpdatePasswordPageGuardsItself ==
    \A q \in Reqs :
        LET r == requests[q] IN
        (r.pc # "new" /\ r.path = <<"auth", "update-password">>) =>
            /\ ~r.gated
            /\ r.outcome = "render:UpdatePasswordForm" => r.answer = "user"
            /\ (r.pc = "done" /\ r.answer \in {"nouser", "error"})
                    => r.outcome = "redirect:/auth/signin?error=session_expired"
            /\ (r.pc = "done" /\ r.answer = "user")
                    => r.outcome = "render:UpdatePasswordForm"

\* One update-password request redirected after a getUser error, another one
\* rendered for a user.
C12_Witness ==
    \E q1, q2 \in Reqs :
        /\ requests[q1].path = <<"auth", "update-password">>
        /\ requests[q1].answer = "error"
        /\ requests[q1].outcome = "redirect:/auth/signin?error=session_expired"
        /\ requests[q2].path = <<"auth", "update-password">>
        /\ requests[q2].answer = "user"
        /\ requests[q2].outcome = "render:UpdatePasswordForm"

\* C2: the gate never throws past its boundary: every gated request ends in a
\* response (pass or redirect), a failure of the createClient call included.
C2_GateNeverThrows ==
    \A q \in Reqs :
        (requests[q].gated /\ requests[q].pc = "done") =>
            /\ requests[q].outcome # "exception"
            /\ requests[q].answer # "user"
                    => requests[q].outcome = "redirect:/auth/signin"

\* C3: the gate's decision for a request is a function of that request's own
\* cookie and of the remote service's answer for it: whatever the interleaving,
\* two gated requests with the same cookie and the same answer get the same
\* decision.
C3_DecisionIsPerRequest ==
    \A q1, q2 \in Reqs :
        LET r1 == requests[q1]
            r2 == requests[q2]
        IN (/\ r1.gated /\ r1.pc = "done"
            /\ r2.gated /\ r2.pc = "done"
            /\ r1.cookie = r2.cookie
            /\ r1.answer = r2.answer)
           => r1.outcome = r2.outcome

\* Two requests refused with the same cookie and answer while a third request
\* of the same run was let through.
C3_Witness ==
    \E q1, q2, q3 \in Reqs :
        /\ q1 # q2 /\ q1 # q3 /\ q2 # q3
        /\ requests[q1].cookie = "present" /\ requests[q1].answer = "nouser"
        /\ requests[q1].outcome = "redirect:/auth/signin"
        /\ requests[q2].cookie = "present" /\ requests[q2].answer = "nouser"
        /\ requests[q2].outcome = "redirect:/auth/signin"
        /\ requests[q3].answer = "user" /\ requests[q3].outcome = "next"

====
